---- MODULE Spec2Model ----
(***************************************************************************)
(* Model of the gallivant test-script runner: the evaluator that turns     *)
(* parsed statements into frontend requests, the Transaction engine that   *)
(* exchanges bytes with a device, the Interpreter iterator and the host    *)
(* loop of gallivant-cli.                                                  *)
(*                                                                         *)
(* Bytes are integers 0..255, byte strings are sequences of bytes.         *)
(***************************************************************************)
EXTENDS Integers, Sequences, FiniteSets, TLC

VARIABLES
    ast,        \* Interpreter.ast: the parsed statements
    index,      \* Interpreter.index: the cursor
    hpmode,     \* Interpreter.state.hpmode
    results,    \* the items Interpreter::next has yielded so far
    pc,         \* position of the driver (host loop or library user)
    request,    \* the host's current_request
    txn,        \* the Transaction value being driven
    status,     \* "None", "New" (no process call yet) or what the last call returned
    sends,      \* number of times txn's tx bytes were written to the port
    reads,      \* number of port.read calls the last process call made
    txdata,     \* bytes written to the port on behalf of txn
    rxdata,     \* per device: bytes the port can hand to a read
    wire,       \* per device: bytes the device has yet to deliver
    tcu,        \* the TCU port of the host: "None" (not given), "Open" (a
                \* serial line) or "Mock" (the MockTCUPort of --tcu mock)
    printer,    \* the printer port of the host: "None", "Closed" or "Open"
    build,      \* "debug" or "release": whether debug_assert! is compiled in
    script,     \* the script text given to try_from_str, as lines of tokens
    errors,     \* the errors try_from_str returned
    restarts,   \* number of Interpreter::restart calls so far
    lastio,     \* how the port behaved in the last process call of host or port run
    mock_write  \* MockTCUPort.write: bytes written to the mock after its last '\r'

vars == <<ast, index, hpmode, results, pc, request, txn, status, sends,
          reads, txdata, rxdata, wire, tcu, printer, build, script, errors,
          restarts, lastio, mock_write>>

----------------------------------------------------------------------------
(* Bounds of the model.                                                    *)

MaxRx == 6
MaxRetries == 2
MaxScriptLen == 3
MaxHostLen == 2
MaxRestarts == 1
MaxSrcLen == 2

----------------------------------------------------------------------------
(* Bytes and byte strings.                                                 *)

CR == 13
ESC == 27
ReadChunk == 64

Min2(a, b) == IF a < b THEN a ELSE b

IsPrefix(s, t) == Len(s) <= Len(t) /\ SubSeq(t, 1, Len(s)) = s

RECURSIVE Concat(_)
Concat(ss) ==
    IF ss = <<>> THEN <<>>
    ELSE IF Len(ss) = 1 THEN ss[1]
    ELSE LET h == Len(ss) \div 2
         IN  Concat(SubSeq(ss, 1, h)) \o Concat(SubSeq(ss, h + 1, Len(ss)))

\* One uppercase hexadecimal digit as an ASCII byte.
HexDigit(d) == IF d < 10 THEN 48 + d ELSE 55 + d

\* The uppercase hexadecimal digits of n, most significant first ({:X}).
RECURSIVE ToHex(_)
ToHex(n) == IF n < 16 THEN <<HexDigit(n)>> ELSE ToHex(n \div 16) \o <<HexDigit(n % 16)>>

\* format!("{:02X}", n): at least two digits, zero padded.
FmtHex02(n) == IF n < 16 THEN <<48, HexDigit(n)>> ELSE ToHex(n)

\* n as u8
AsU8(n) == n % 256

\* tcu_format_byte with {:X} for {:02X}.
tcu_format_byte_unpadded(byte) == ToHex(byte)

\* format!("{byte:02X}").into_bytes()
tcu_format_byte(byte) == FmtHex02(byte)

\* bytes.into_iter().flat_map(tcu_format_byte).collect()
FlatMapFormat(bytes) == Concat([i \in 1..Len(bytes) |-> tcu_format_byte(bytes[i])])

----------------------------------------------------------------------------
(* Expressions (ParsedExpr).  Spans play no part in equality and are left  *)
(* out.  A node has a kind, a leaf payload (uint or str) and child nodes.  *)

UIntE(n) == [kind |-> "UInt", uint |-> n, str |-> <<>>, args |-> <<>>]
StringE(s) == [kind |-> "String", uint |-> 0, str |-> s, args |-> <<>>]
ScriptCommentE(s) == [kind |-> "ScriptComment", uint |-> 0, str |-> s, args |-> <<>>]
Cmd(k, a) == [kind |-> k, uint |-> 0, str |-> <<>>, args |-> a]
NoExpr == Cmd("None", <<>>)

IsUInt(e) == e.kind = "UInt"
IsString(e) == e.kind = "String"

----------------------------------------------------------------------------
(* Measurements and measurement tests (execution/measurement.rs).          *)
(* A u32 that comes off the wire is held as two 16 bit limbs so that all   *)
(* eight hexadecimal digits are representable.                             *)

U32(n) == [hi |-> n \div 65536, lo |-> n % 65536]
U32Le(a, b) == a.hi < b.hi \/ (a.hi = b.hi /\ a.lo <= b.lo)

\* The number a parsed measurement stands for (readings stay below 2^16).
U32Value(m) == m.hi * 65536 + m.lo

\* char::to_digit(16) on an ASCII byte; -1 when the byte is no hex digit.
HexVal(b) ==
    IF b >= 48 /\ b <= 57 THEN b - 48
    ELSE IF b >= 65 /\ b <= 70 THEN b - 55
    ELSE IF b >= 97 /\ b <= 102 THEN b - 87
    ELSE 0 - 1

RECURSIVE StripZeros(_)
StripZeros(ds) == IF ds # <<>> /\ Head(ds) = 0 THEN StripZeros(Tail(ds)) ELSE ds

RECURSIVE DigitsValue(_)
DigitsValue(ds) ==
    IF ds = <<>> THEN 0 ELSE 16 * DigitsValue(SubSeq(ds, 1, Len(ds) - 1)) + ds[Len(ds)]

ParseErr == [ok |-> FALSE, value |-> U32(0)]

\* u32::from_str_radix(s, 16): an optional '+', then one or more hex digits
\* whose value fits 32 bits.
u32_from_str_radix(s) ==
    IF s = <<>> THEN ParseErr
    ELSE LET body == IF Head(s) = 43 THEN Tail(s) ELSE s
             ds == [i \in 1..Len(body) |-> HexVal(body[i])]
             sig == StripZeros(ds)
             n == Len(sig)
         IN  IF body = <<>> THEN ParseErr
             ELSE IF \E i \in 1..Len(ds) : ds[i] < 0 THEN ParseErr
             ELSE IF n > 8 THEN ParseErr
             ELSE [ok |-> TRUE,
                   value |-> [hi |-> DigitsValue(SubSeq(sig, 1, n - Min2(n, 4))),
                              lo |-> DigitsValue(SubSeq(sig, n - Min2(n, 4) + 1, n))]]

RECURSIVE TakeUntilCR(_)
TakeUntilCR(bytes) ==
    IF bytes = <<>> \/ Head(bytes) = CR THEN <<>>
    ELSE <<Head(bytes)>> \o TakeUntilCR(Tail(bytes))

\* std::str::from_utf8(bytes).is_ok(): bytes is a run of well-formed
\* sequences, k being the length of the one at its head and 0 when there is
\* none (no overlong form, no surrogate, nothing above U+10FFFF).
RECURSIVE Utf8Valid(_)
Utf8Valid(bytes) ==
    IF bytes = <<>> THEN TRUE
    ELSE LET n == Len(bytes)
             b1 == bytes[1]
             Cont(i) == n >= i /\ bytes[i] >= 128 /\ bytes[i] <= 191
             k == IF b1 <= 127 THEN 1
                  ELSE IF b1 >= 194 /\ b1 <= 223
                  THEN IF Cont(2) THEN 2 ELSE 0
                  ELSE IF b1 >= 224 /\ b1 <= 239
                  THEN IF /\ Cont(2)
                          /\ Cont(3)
                          /\ (b1 = 224 => bytes[2] >= 160)
                          /\ (b1 = 237 => bytes[2] <= 159)
                       THEN 3 ELSE 0
                  ELSE IF b1 >= 240 /\ b1 <= 244
                  THEN IF /\ Cont(2)
                          /\ Cont(3)
                          /\ Cont(4)
                          /\ (b1 = 240 => bytes[2] >= 144)
                          /\ (b1 = 244 => bytes[2] <= 143)
                       THEN 4 ELSE 0
                  ELSE 0
         IN  k > 0 /\ Utf8Valid(SubSeq(bytes, k + 1, n))

\* Measurement::try_from(&[u8]): the whole slice has to be UTF-8, and the
\* characters before the first '\r' are parsed as a hexadecimal u32.  A
\* '\r' is a single byte in UTF-8, so the characters before it are the bytes
\* before it, and a character outside ASCII among them is no hex digit.
Measurement_try_from(bytes) ==
    IF ~Utf8Valid(bytes) THEN ParseErr
    ELSE u32_from_str_radix(TakeUntilCR(bytes))

NoTest == [present |-> FALSE, min |-> 0, max |-> 0, retries |-> 0, message |-> <<>>]
SomeTest(min, max, retries, message) ==
    [present |-> TRUE, min |-> min, max |-> max, retries |-> retries, message |-> message]

\* A range that leaves out both of its bounds.
RangeContains_exclusive(min, max, m) ==
    U32Le(U32(min), m) /\ U32Le(m, U32(max)) /\ m # U32(min) /\ m # U32(max)

\* RangeInclusive::contains
RangeContains(min, max, m) == U32Le(U32(min), m) /\ U32Le(m, U32(max))

\* MeasurementTest::test, but a failed measurement is never tried again.
MeasurementTest_test_never_retries(test, m) ==
    IF ~RangeContains(test.min, test.max, m)
    THEN [kind |-> "TestFailed", test |-> test]
    ELSE [kind |-> "Ok", test |-> test]

MeasurementTest_test_keeps_retries(test, m) ==
    IF ~RangeContains(test.min, test.max, m)
    THEN IF test.retries > 0
         THEN [kind |-> "TestFailedRetryable", test |-> test]
         ELSE [kind |-> "TestFailed", test |-> test]
    ELSE [kind |-> "Ok", test |-> test]

\* MeasurementTest::test
MeasurementTest_test(test, m) ==
    IF ~RangeContains(test.min, test.max, m)
    THEN IF test.retries > 0
         THEN [kind |-> "TestFailedRetryable",
               test |-> [test EXCEPT !.retries = @ - 1]]
         ELSE [kind |-> "TestFailed", test |-> test]
    ELSE [kind |-> "Ok", test |-> test]

----------------------------------------------------------------------------
(* Transactions (execution/transaction.rs).                                *)

NoTxn == [expression |-> NoExpr, txbytes |-> <<>>, txcomplete |-> FALSE,
          device |-> "None", response |-> <<>>, test |-> NoTest]

Transaction_with_tcu(expression, txbytes, test) ==
    [expression |-> expression, txbytes |-> txbytes, txcomplete |-> FALSE,
     device |-> "TCU", response |-> <<>>, test |-> test]

Transaction_with_printer(expression, txbytes, test) ==
    [expression |-> expression, txbytes |-> txbytes, txcomplete |-> FALSE,
     device |-> "Printer", response |-> <<>>, test |-> test]

\* slice::split_inclusive(|b| b == '\r'): every part but possibly the last
\* ends with '\r'; an empty slice has no parts.
RECURSIVE SplitInclusive(_, _)
SplitInclusive(bytes, cur) ==
    IF bytes = <<>> THEN (IF cur = <<>> THEN <<>> ELSE <<cur>>)
    ELSE IF Head(bytes) = CR
         THEN <<cur \o <<CR>>>> \o SplitInclusive(Tail(bytes), <<>>)
         ELSE SplitInclusive(Tail(bytes), cur \o <<Head(bytes)>>)

Parts(bytes) == SplitInclusive(bytes, <<>>)

expected_endings(t) ==
    IF t.test.present /\ t.device = "TCU" THEN 2
    ELSE IF t.test.present \/ t.device = "TCU" THEN 1
    ELSE 0

Outcome(o, t) == [outcome |-> o, txn |-> t]
\* evaluate_response, but a retry also empties the receive buffer.
evaluate_response_clears_on_retry(t) ==
    LET echo_expected == t.device = "TCU"
        expected == expected_endings(t)
        parts == Parts(t.response)
    IN  IF expected = 0 THEN Outcome("Success", t)
        ELSE IF Len(parts) < expected THEN Outcome("Ongoing", t)
        ELSE IF echo_expected /\ parts[1] # t.txbytes THEN Outcome("Panic", t)
        ELSE IF t.test.present
        THEN LET measurement == Measurement_try_from(
                     IF echo_expected THEN parts[2] ELSE parts[1])
                 tested == MeasurementTest_test(t.test, measurement.value)
             IN  IF ~measurement.ok THEN Outcome("Panic", t)
                 ELSE IF tested.kind = "Ok" THEN Outcome("Success", t)
                 ELSE IF tested.kind = "TestFailedRetryable"
                 THEN Outcome("Ongoing",
                              [t EXCEPT !.test = tested.test, !.txcomplete = FALSE,
                                        !.response = <<>>])
                 ELSE Outcome("Panic", t)
        ELSE Outcome("Success", t)

\* evaluate_response, but the echo is not compared with the bytes sent.
evaluate_response_skips_echo(t) ==
    LET echo_expected == t.device = "TCU"
        expected == expected_endings(t)
        parts == Parts(t.response)
    IN  IF expected = 0 THEN Outcome("Success", t)
        ELSE IF Len(parts) < expected THEN Outcome("Ongoing", t)
        ELSE IF t.test.present
        THEN LET measurement == Measurement_try_from(
                     IF echo_expected THEN parts[2] ELSE parts[1])
                 tested == MeasurementTest_test(t.test, measurement.value)
             IN  IF ~measurement.ok THEN Outcome("Panic", t)
                 ELSE IF tested.kind = "Ok" THEN Outcome("Success", t)
                 ELSE IF tested.kind = "TestFailedRetryable"
                 THEN Outcome("Ongoing",
                              [t EXCEPT !.test = tested.test, !.txcomplete = FALSE])
                 ELSE Outcome("Panic", t)
        ELSE Outcome("Success", t)

\* Every device echoes its command.
echo_always(t) == TRUE

\* let echo_expected = self.device == Device::TCU;
echo_is_expected(t) == t.device = "TCU"

\* Transaction::evaluate_response.  Every todo!() of the source is the
\* outcome "Panic": the program aborts and no value is returned.
evaluate_response(t) ==
    LET echo_expected == echo_is_expected(t)
        expected == expected_endings(t)
        parts == Parts(t.response)
    IN  IF expected = 0 THEN Outcome("Success", t)
        ELSE IF Len(parts) < expected THEN Outcome("Ongoing", t)
        ELSE IF echo_expected /\ parts[1] # t.txbytes THEN Outcome("Panic", t)
        ELSE IF t.test.present
        THEN LET measurement == Measurement_try_from(
                     IF echo_expected THEN parts[2] ELSE parts[1])
                 tested == MeasurementTest_test(t.test, measurement.value)
             IN  IF ~measurement.ok THEN Outcome("Panic", t)
                 ELSE IF tested.kind = "Ok" THEN Outcome("Success", t)
                 ELSE IF tested.kind = "TestFailedRetryable"
                 THEN Outcome("Ongoing",
                              [t EXCEPT !.test = tested.test, !.txcomplete = FALSE])
                 ELSE Outcome("Panic", t)
        ELSE Outcome("Success", t)

\* What the port does during one process call:
\*   "ok"        reads hand over what is available, then return 0 (PortMock)
\*   "timedout"  as "ok", but the last read fails with TimedOut
\*   "readerr"   a read fails with another error kind
\*   "writeerr"  write_all fails
\* Number of port.read calls that drain n available bytes, ReadChunk at a time.
ReadCalls(n) == (n + ReadChunk - 1) \div ReadChunk + 1

ProcessResult(o, t, wrote, rx, nreads) ==
    [outcome |-> o, txn |-> t, wrote |-> wrote, rx |-> rx, reads |-> nreads]

\* process, but a transaction without test and echo is not reported done
\* right after the send.
process_always_ongoing(t, rx, io) ==
    IF ~t.txcomplete
    THEN IF io = "writeerr" THEN ProcessResult("Panic", t, FALSE, rx, 0)
         ELSE ProcessResult("Ongoing", [t EXCEPT !.txcomplete = TRUE], TRUE, rx, 0)
    ELSE IF io = "readerr" THEN ProcessResult("Panic", t, FALSE, <<>>, ReadCalls(Len(rx)))
    ELSE LET r == evaluate_response([t EXCEPT !.response = @ \o rx])
         IN  ProcessResult(r.outcome, r.txn, FALSE, <<>>, ReadCalls(Len(rx)))

\* Transaction::process(port), with rx the bytes the reads of the call hand
\* over.
process(t, rx, io) ==
    IF ~t.txcomplete
    THEN IF io = "writeerr" THEN ProcessResult("Panic", t, FALSE, rx, 0)
         ELSE ProcessResult(
                  IF t.device = "Printer" /\ ~t.test.present THEN "Success" ELSE "Ongoing",
                  [t EXCEPT !.txcomplete = TRUE], TRUE, rx, 0)
    ELSE IF io = "readerr" THEN ProcessResult("Panic", t, FALSE, <<>>, ReadCalls(Len(rx)))
    ELSE LET r == evaluate_response([t EXCEPT !.response = @ \o rx])
         IN  ProcessResult(r.outcome, r.txn, FALSE, <<>>, ReadCalls(Len(rx)))

\* The read loop of process on a port whose read waits (a serial line with
\* a timeout): rx is readable when the call starts and w is on its way.
\* Each read hands over what is readable, at most ReadChunk bytes, and the
\* first k bytes of w arrive while the call reads.  With "ok" and "timedout"
\* the loop runs until a read finds nothing; with "readerr" a read fails
\* after t bytes were handed over.  taken is what the reads handed over,
\* left what is readable after the call, wire what is still on its way and
\* reads the number of read calls.
read_loop(rx, w, io) ==
    LET a == Len(rx)
        Pieces(n) == (n + ReadChunk - 1) \div ReadChunk
        Arrived(k) == rx \o SubSeq(w, 1, k)
        Run(k, t, n) ==
            [taken |-> SubSeq(Arrived(k), 1, t),
             left |-> SubSeq(Arrived(k), t + 1, a + k),
             wire |-> SubSeq(w, k + 1, Len(w)),
             reads |-> n + 1]
        Stops(k) ==
            IF io = "readerr"
            THEN {ReadChunk * i : i \in 0..(a \div ReadChunk)} \cup {a + j : j \in 0..k}
            ELSE {a + k}
        Calls(t) ==
            Pieces(t)..(Pieces(IF t < a THEN t ELSE a) + (IF t > a THEN t - a ELSE 0))
    IN  UNION {UNION {{Run(k, t, n) : n \in Calls(t)} : t \in Stops(k)} :
                   k \in 0..Len(w)}

----------------------------------------------------------------------------
(* Frontend requests and the evaluator (syntax/evaluate.rs).               *)

Req(k) == [kind |-> k, txn |-> NoTxn, str |-> <<>>, uint |-> 0, dialog |-> "None"]
TCUTransact(t) == [Req("TCUTransact") EXCEPT !.txn = t]
PrinterTransact(t) == [Req("PrinterTransact") EXCEPT !.txn = t]

EvalOk(r, hp) == [outcome |-> "Ok", request |-> r, hpmode |-> hp]
EvalPanic(hp) == [outcome |-> "Panic", request |-> Req("None"), hpmode |-> hp]

\* The argument bytes of PRINT and USBPRINT: strings as their bytes, each
\* uint as one byte.  debug_assert!(uint <= 255) aborts a debug build.
RECURSIVE ArgBytes(_, _)
ArgBytes(args, dbg) ==
    IF args = <<>> THEN [ok |-> TRUE, bytes |-> <<>>]
    ELSE LET a == Head(args)
             rest == ArgBytes(Tail(args), dbg)
         IN  IF IsString(a) THEN [ok |-> rest.ok, bytes |-> a.str \o rest.bytes]
             ELSE IF IsUInt(a)
             THEN IF dbg /\ a.uint > 255 THEN [ok |-> FALSE, bytes |-> <<>>]
                  ELSE [ok |-> rest.ok, bytes |-> <<AsU8(a.uint)>> \o rest.bytes]
             ELSE [ok |-> FALSE, bytes |-> <<>>]

\* ASCII of a prefix literal of the source.
P051B7466 == <<80, 48, 53, 49, 66, 55, 52, 54, 54>>
P051B007466 == <<80, 48, 53, 49, 66, 48, 48, 55, 52, 54, 54>>
P151B7473 == <<80, 49, 53, 49, 66, 55, 52, 55, 51>>
P151B007473 == <<80, 49, 53, 49, 66, 48, 48, 55, 52, 55, 51>>
P061B004F == <<80, 48, 54, 49, 66, 48, 48, 52, 70>>
P061B00004F == <<80, 48, 54, 49, 66, 48, 48, 48, 48, 52, 70>>
P051B0053 == <<80, 48, 53, 49, 66, 48, 48, 53, 51>>
P051B000053 == <<80, 48, 53, 49, 66, 48, 48, 48, 48, 53, 51>>
W051B004D == <<87, 48, 53, 49, 66, 48, 48, 52, 68>>
W051B00004D == <<87, 48, 53, 49, 66, 48, 48, 48, 48, 52, 68>>

TestArgsOk(a) ==
    /\ Len(a) = 5
    /\ IsUInt(a[1]) /\ IsUInt(a[2]) /\ IsUInt(a[3]) /\ IsUInt(a[4]) /\ IsString(a[5])

TestOf(a) == SomeTest(a[2].uint, a[3].uint, a[4].uint, a[5].str)

\* EvalState::new(): HPMODE starts off.
EvalState_new == FALSE

\* HPMODE as a switch that is only ever turned on.
hpmode_set(hp) == TRUE

\* state.hpmode = !state.hpmode
hpmode_toggle(hp) == ~hp

\* The bytes of a command with ESC, as if HPMODE changed nothing.
hp_select_never(hp, with_nul, without) == without

\* if state.hpmode { <bytes with a NUL after ESC> } else { <bytes without> }
hp_select(hp, with_nul, without) == IF hp THEN with_nul ELSE without

\* evaluate(expr, state): the request for one statement and the new hpmode.
\* now is the host clock as "HH:MM:SS,DD/MM/YY"; dbg tells a debug build.
evaluate(expr, hp, now, dbg) ==
    LET k == expr.kind
        a == expr.args
        byteOk(e) == ~(dbg /\ e.uint > 255)
    IN
    CASE k \in {"String", "UInt"} -> EvalPanic(hp)
      [] k = "ScriptComment" -> EvalOk(Req("None"), hp)
      [] k = "HPMode" -> EvalOk(Req("None"), hpmode_toggle(hp))
      [] k = "Comment" ->
            IF IsString(a[1]) THEN EvalOk([Req("GuiPrint") EXCEPT !.str = a[1].str], hp)
            ELSE EvalPanic(hp)
      [] k = "Wait" ->
            IF IsUInt(a[1]) THEN EvalOk([Req("Wait") EXCEPT !.uint = a[1].uint], hp)
            ELSE EvalPanic(hp)
      [] k = "OpenDialog" ->
            IF IsString(a[1])
            THEN EvalOk([Req("GuiDialogue") EXCEPT !.dialog = "Notification",
                                                   !.str = a[1].str], hp)
            ELSE EvalPanic(hp)
      [] k = "WaitDialog" ->
            IF IsString(a[1])
            THEN EvalOk([Req("GuiDialogue") EXCEPT !.dialog = "ManualInput",
                                                   !.str = a[1].str], hp)
            ELSE EvalPanic(hp)
      [] k = "Flush" -> EvalOk(Req("TCUFlush"), hp)
      [] k = "Protocol" -> EvalOk(Req("None"), hp)
      [] k = "Print" ->
            LET ab == ArgBytes(a, dbg)
                hex == FlatMapFormat(ab.bytes)
            IN  IF ~ab.ok THEN EvalPanic(hp)
                ELSE IF Len(hex) > 255 THEN EvalPanic(hp)
                ELSE EvalOk(TCUTransact(Transaction_with_tcu(expr,
                         <<80>> \o tcu_format_byte(AsU8(Len(hex))) \o hex \o <<CR>>,
                         NoTest)), hp)
      [] k = "SetTimeFormat" ->
            IF IsUInt(a[1])
            THEN EvalOk(TCUTransact(Transaction_with_tcu(expr,
                     hp_select(hp, P051B007466, P051B7466)
                         \o tcu_format_byte(AsU8(a[1].uint)) \o <<CR>>,
                     NoTest)), hp)
            ELSE EvalPanic(hp)
      [] k = "SetTime" ->
            EvalOk(TCUTransact(Transaction_with_tcu(expr,
                hp_select(hp, P151B007473, P151B7473) \o FlatMapFormat(now) \o <<CR>>,
                NoTest)), hp)
      [] k = "SetOption" ->
            IF IsUInt(a[1]) /\ IsUInt(a[2])
            THEN IF ~byteOk(a[1]) \/ ~byteOk(a[2]) THEN EvalPanic(hp)
                 ELSE EvalOk(TCUTransact(Transaction_with_tcu(expr,
                          hp_select(hp, P061B00004F, P061B004F)
                              \o FmtHex02(a[1].uint) \o FmtHex02(a[2].uint) \o <<CR>>,
                          NoTest)), hp)
            ELSE EvalPanic(hp)
      [] k = "TCUClose" ->
            IF IsUInt(a[1]) /\ byteOk(a[1])
            THEN EvalOk(TCUTransact(Transaction_with_tcu(expr,
                     <<67>> \o FmtHex02(a[1].uint) \o <<CR>>, NoTest)), hp)
            ELSE EvalPanic(hp)
      [] k = "TCUOpen" ->
            IF IsUInt(a[1]) /\ byteOk(a[1])
            THEN EvalOk(TCUTransact(Transaction_with_tcu(expr,
                     <<79>> \o FmtHex02(a[1].uint) \o <<CR>>, NoTest)), hp)
            ELSE EvalPanic(hp)
      [] k = "TCUTest" ->
            IF TestArgsOk(a) /\ byteOk(a[1])
            THEN EvalOk(TCUTransact(Transaction_with_tcu(expr,
                     <<77>> \o FmtHex02(a[1].uint) \o <<CR>>, TestOf(a))), hp)
            ELSE EvalPanic(hp)
      [] k = "PrinterSet" ->
            IF IsUInt(a[1]) /\ byteOk(a[1])
            THEN EvalOk(TCUTransact(Transaction_with_tcu(expr,
                     hp_select(hp, P051B000053, P051B0053)
                         \o FmtHex02(a[1].uint) \o <<CR>>,
                     NoTest)), hp)
            ELSE EvalPanic(hp)
      [] k = "PrinterTest" ->
            IF TestArgsOk(a) /\ byteOk(a[1])
            THEN EvalOk(TCUTransact(Transaction_with_tcu(expr,
                     hp_select(hp, W051B00004D, W051B004D)
                         \o FmtHex02(a[1].uint) \o <<CR>>,
                     TestOf(a))), hp)
            ELSE EvalPanic(hp)
      [] k \in {"IssueTest", "TestResult"} -> EvalOk(Req("None"), hp)
      [] k = "USBOpen" -> EvalOk(Req("PrinterOpen"), hp)
      [] k = "USBClose" -> EvalOk(Req("PrinterClose"), hp)
      [] k = "USBPrint" ->
            LET ab == ArgBytes(a, dbg)
            IN  IF ~ab.ok THEN EvalPanic(hp)
                ELSE EvalOk(PrinterTransact(Transaction_with_printer(expr, ab.bytes,
                                                                      NoTest)), hp)
      [] k = "USBSetTimeFormat" ->
            IF IsUInt(a[1])
            THEN EvalOk(PrinterTransact(Transaction_with_printer(expr,
                     hp_select(hp, <<ESC, 0>>, <<ESC>>) \o <<116, 102, AsU8(a[1].uint)>>,
                     NoTest)), hp)
            ELSE EvalPanic(hp)
      [] k = "USBSetTime" ->
            EvalOk(PrinterTransact(Transaction_with_printer(expr,
                hp_select(hp, <<ESC, 0>>, <<ESC>>) \o <<116, 115>> \o now,
                NoTest)), hp)
      [] k = "USBSetOption" ->
            IF IsUInt(a[1]) /\ IsUInt(a[2])
            THEN IF ~byteOk(a[1]) \/ ~byteOk(a[2]) THEN EvalPanic(hp)
                 ELSE EvalOk(PrinterTransact(Transaction_with_printer(expr,
                          hp_select(hp, <<ESC, 0, 0>>, <<ESC, 0>>)
                              \o <<79, AsU8(a[1].uint), AsU8(a[2].uint)>>,
                          NoTest)), hp)
            ELSE EvalPanic(hp)
      [] k = "USBPrinterSet" ->
            IF IsUInt(a[1]) /\ byteOk(a[1])
            THEN EvalOk(PrinterTransact(Transaction_with_printer(expr,
                     hp_select(hp, <<ESC, 0, 0>>, <<ESC, 0>>) \o <<83, AsU8(a[1].uint)>>,
                     NoTest)), hp)
            ELSE EvalPanic(hp)
      [] k = "USBPrinterTest" ->
            IF TestArgsOk(a) /\ byteOk(a[1])
            THEN EvalOk(PrinterTransact(Transaction_with_printer(expr,
                     hp_select(hp, <<ESC, 0, 0>>, <<ESC, 0>>) \o <<77, AsU8(a[1].uint)>>,
                     TestOf(a))), hp)
            ELSE EvalPanic(hp)
----------------------------------------------------------------------------
(* One transaction driven against a PortMock (tests/mocks.rs): reads hand  *)
(* over whatever the device has made available, writes always succeed.     *)
(* The device is arbitrary: it may deliver any byte of Alphabet at any     *)
(* time, so every split of a reply over process calls occurs.              *)

Devices == {"TCU", "Printer"}

\* '\r', '0', 'C', 'M': the bytes of the echoes "C00\r" and "M00\r", two hex
\* digits and one byte that is no hex digit.
Alphabet == {CR, 48, 67, 77}

Message == <<70>>

TestArgs(r) == <<UIntE(0), UIntE(1), UIntE(12), UIntE(r), StringE(Message)>>

TxnStatements ==
    {Cmd("TCUClose", <<UIntE(0)>>), Cmd("USBPrint", <<StringE(<<67>>), UIntE(48)>>)}
        \cup {Cmd("TCUTest", TestArgs(r)) : r \in 0..MaxRetries}
        \cup {Cmd("USBPrinterTest", TestArgs(r)) : r \in 0..MaxRetries}

Clock == {<<49, 50, 58, 51, 52, 58, 53, 54, 44, 51, 49, 47, 49, 50, 47, 50, 54>>}

NoPorts == [d \in Devices |-> <<>>]

InitTxn ==
    /\ ast = <<>>
    /\ index = 0
    /\ hpmode = EvalState_new
    /\ results = <<>>
    /\ pc = "txn"
    /\ build = "release"
    /\ request = Req("None")
    /\ \E e \in TxnStatements : \E now \in Clock :
           txn = evaluate(e, EvalState_new, now, build = "debug").request.txn
    /\ status = "New"
    /\ sends = 0
    /\ reads = 0
    /\ txdata = <<>>
    /\ rxdata = NoPorts
    /\ wire = NoPorts
    /\ tcu = "Open"
    /\ printer = "Open"
    /\ script = <<>>
    /\ errors = <<>>
    /\ restarts = 0
    /\ lastio = "none"
    /\ mock_write = <<>>

\* PortMock::read and PortMock::write under one process call on txn.
TxnProcess ==
    /\ pc = "txn"
    /\ status \in {"New", "Ongoing"}
    /\ LET r == process(txn, rxdata[txn.device], "ok")
       IN  /\ txn' = r.txn
           /\ status' = r.outcome
           /\ sends' = IF r.wrote THEN sends + 1 ELSE sends
           /\ txdata' = IF r.wrote THEN txdata \o txn.txbytes ELSE txdata
           /\ reads' = r.reads
           /\ rxdata' = [rxdata EXCEPT ![txn.device] = r.rx]
    /\ UNCHANGED <<ast, index, hpmode, results, pc, request, wire, tcu, printer, build,
                   script, errors, restarts, lastio, mock_write>>

\* The device makes one more byte available to the port.
TxnReceive ==
    /\ pc = "txn"
    /\ status \in {"New", "Ongoing"}
    /\ Len(txn.response) + Len(rxdata[txn.device]) < MaxRx
    /\ \E b \in Alphabet :
           rxdata' = [rxdata EXCEPT ![txn.device] = Append(@, b)]
    /\ UNCHANGED <<ast, index, hpmode, results, pc, request, txn, status, sends,
                   reads, txdata, wire, tcu, printer, build,
                   script, errors, restarts, lastio, mock_write>>

NextTxn == TxnProcess \/ TxnReceive

SpecTxn == InitTxn /\ [][NextTxn]_vars
----------------------------------------------------------------------------
(* Properties of one transaction, checked under SpecTxn.                   *)

\* The retries argument the transaction's statement was written with.
InitialRetries(t) == t.expression.args[4].uint

\* The first part of a byte string (empty when there is none).
FirstPart(bytes) == IF bytes = <<>> THEN <<>> ELSE Parts(bytes)[1]

CountCR(bytes) == Cardinality({i \in 1..Len(bytes) : bytes[i] = CR})

\* The last process call on txn read from the port and evaluated the response.
Evaluated == reads >= 1

\* C1: a transaction created with retries = n has its tx bytes written to the
\* port at most n + 1 times, whatever the device delivers.
C1_SendBound == txn.test.present => sends <= InitialRetries(txn) + 1

C1_Witness ==
    /\ txn.test.present
    /\ InitialRetries(txn) >= 1
    /\ sends = InitialRetries(txn) + 1
    /\ status = "Panic"

\* C2: a TCU transaction whose first '\r'-terminated part differs from the
\* bytes sent makes process return an IOError value.
C2_EchoMismatchIsError ==
    (/\ txn.device = "TCU"
     /\ txn.txcomplete
     /\ Evaluated
     /\ CountCR(txn.response) >= 1
     /\ FirstPart(txn.response) # txn.txbytes) => status = "IOError"

\* C3: a measurement outside the range with no retries left makes process
\* return a TestFailure value.
C3_FinalFailureIsTestFailure ==
    (/\ txn.test.present
     /\ txn.txcomplete
     /\ Evaluated
     /\ txn.test.retries = 0
     /\ LET parts == Parts(txn.response)
            k == expected_endings(txn)
        IN  /\ Len(parts) >= k
            /\ CountCR(txn.response) >= k
            /\ (txn.device = "TCU" => parts[1] = txn.txbytes)
            /\ Measurement_try_from(parts[k]).ok
            /\ ~RangeContains(txn.test.min, txn.test.max,
                              Measurement_try_from(parts[k]).value))
        => status = "TestFailure"

\* C4: while the receive buffer holds fewer '\r' than the transaction
\* expects, every process call after the send returns Ongoing.
C4_IncompleteIsOngoing ==
    (/\ txn.txcomplete
     /\ expected_endings(txn) >= 1
     /\ CountCR(txn.response) < expected_endings(txn)) => status = "Ongoing"

\* C5: the receive buffer before a step is a prefix of the receive buffer
\* after it, also across a retry.
C5_ResponseOnlyGrows == [][IsPrefix(txn.response, txn'.response)]_vars

C5_Witness == sends >= 2 /\ Evaluated /\ Len(txn.response) >= 4

\* C6: a Printer transaction without test is done after its first process
\* call, which wrote the tx bytes once and read nothing.
C6_PrinterFireAndForget ==
    (txn.device = "Printer" /\ ~txn.test.present /\ status # "New")
        => (status = "Success" /\ sends = 1 /\ txdata = txn.txbytes /\ reads = 0)

C6_Witness ==
    txn.device = "Printer" /\ ~txn.test.present /\ status = "Success" /\ sends = 1

\* C7: for a TCU transaction without test the first process call sends the
\* tx bytes and returns Ongoing, Success is reported only with the echo in
\* the receive buffer, and a process call that reads the echo reports it.
C7_EchoThenSuccess ==
    [][(txn.device = "TCU" /\ ~txn.test.present) =>
          /\ (status = "New" /\ status' # "New") =>
                 (status' = "Ongoing" /\ txdata' = txn.txbytes /\ txn'.txcomplete)
          /\ status' = "Success" => FirstPart(txn'.response) = txn.txbytes
          /\ (/\ status = "Ongoing"
              /\ reads' >= 1
              /\ rxdata'[txn.device] = <<>>
              /\ FirstPart(txn.response \o rxdata[txn.device]) = txn.txbytes)
                 => status' = "Success"]_vars

C7_Witness ==
    /\ txn.device = "TCU"
    /\ ~txn.test.present
    /\ status = "Success"
    /\ txn.response = txn.txbytes
\* The values process can return besides Ongoing and Success.
TransactionErrors == {"IOError", "TestFailure", "MeasurementError"}

\* C20: when the part of the response that holds the measurement is not a
\* run of hex digits that fits a u32, process returns a transaction error
\* value: it neither aborts the program nor reports Success or Ongoing.
C20_ParseFailureIsError ==
    (/\ txn.test.present
     /\ txn.txcomplete
     /\ Evaluated
     /\ LET parts == Parts(txn.response)
            k == expected_endings(txn)
        IN  /\ Len(parts) >= k
            /\ CountCR(txn.response) >= k
            /\ (txn.device = "TCU" => parts[1] = txn.txbytes)
            /\ ~Measurement_try_from(parts[k]).ok)
        => status \in TransactionErrors

----------------------------------------------------------------------------
(* The Interpreter as a library user drives it (interpreter.rs): next and  *)
(* restart on a script drawn from Scripts.                                 *)

Statements ==
    {Cmd("HPMode", <<>>),
     ScriptCommentE(<<99>>),
     Cmd("Flush", <<>>),
     Cmd("WaitDialog", <<StringE(<<109>>)>>),
     Cmd("TCUClose", <<UIntE(0)>>),
     Cmd("SetTimeFormat", <<UIntE(5)>>),
     Cmd("TCUTest", TestArgs(1)),
     Cmd("USBOpen", <<>>),
     Cmd("USBClose", <<>>),
     Cmd("USBPrint", <<StringE(<<67>>), UIntE(48)>>),
     UIntE(5)}

RECURSIVE SeqsUpTo(_, _)
SeqsUpTo(S, n) ==
    IF n = 0 THEN {<<>>}
    ELSE LET shorter == SeqsUpTo(S, n - 1)
         IN  shorter \cup {Append(q, x) : q \in shorter, x \in S}

Scripts == SeqsUpTo(Statements, MaxScriptLen)

Builds == {"debug", "release"}

\* What Iterator::next yields: Some(Ok(request)) or None.
SomeItem(r) == [some |-> TRUE, request |-> r]
NoneItem == [some |-> FALSE, request |-> Req("None")]

InitInterp ==
    /\ ast \in Scripts
    /\ index = 0
    /\ hpmode = EvalState_new
    /\ results = <<>>
    /\ pc = "iter"
    /\ build \in Builds
    /\ request = Req("None")
    /\ txn = NoTxn
    /\ status = "None"
    /\ sends = 0
    /\ reads = 0
    /\ txdata = <<>>
    /\ rxdata = NoPorts
    /\ wire = NoPorts
    /\ tcu = "Open"
    /\ printer = "Closed"
    /\ script = <<>>
    /\ errors = <<>>
    /\ restarts = 0
    /\ lastio = "none"
    /\ mock_write = <<>>

\* Interpreter::next: the cursor moves before evaluate runs, so a panic in
\* evaluate leaves it moved; past the end nothing is yielded.
InterpNext ==
    /\ pc = "iter"
    /\ \/ /\ index < Len(ast)
          /\ index' = index + 1
          /\ \E now \in Clock :
                 LET r == evaluate(ast[index + 1], hpmode, now, build = "debug")
                 IN  IF r.outcome = "Panic"
                     THEN pc' = "abort" /\ UNCHANGED <<hpmode, results>>
                     ELSE /\ hpmode' = r.hpmode
                          /\ results' = Append(results, SomeItem(r.request))
                          /\ pc' = pc
       \/ /\ index >= Len(ast)
          /\ Len(results) <= Len(ast)
          /\ results' = Append(results, NoneItem)
          /\ UNCHANGED <<index, hpmode, pc>>
    /\ UNCHANGED <<ast, request, txn, status, sends, reads, txdata, rxdata, wire,
                   tcu, printer, build,
                   script, errors, restarts, lastio, mock_write>>

\* A restart that rewinds the cursor and keeps the evaluation state.
restart_cursor_only(i, hp) == [index |-> 0, hpmode |-> hp]

\* self.index = 0; self.state = EvalState::new();
restart(i, hp) == [index |-> 0, hpmode |-> EvalState_new]

\* Interpreter::restart, called by the host between two calls of next; the
\* requests yielded from then on are collected afresh.
InterpRestart ==
    /\ pc = "iter"
    /\ restarts < MaxRestarts
    /\ restarts' = restarts + 1
    /\ index' = restart(index, hpmode).index
    /\ hpmode' = restart(index, hpmode).hpmode
    /\ results' = <<>>
    /\ UNCHANGED <<ast, pc, request, txn, status, sends, reads, txdata, rxdata, wire,
                   tcu, printer, build,
                   script, errors, lastio, mock_write>>

NextInterp == InterpNext \/ InterpRestart

SpecInterp == InitInterp /\ [][NextInterp]_vars

RECURSIVE CountKind(_, _)
CountKind(seq, k) ==
    IF seq = <<>> THEN 0
    ELSE (IF Head(seq).kind = k THEN 1 ELSE 0) + CountKind(Tail(seq), k)

\* The statements evaluated since construction or the last restart.
Evaluated_statements == SubSeq(ast, 1, index)

\* C8: hpmode is true exactly when an odd number of HPMODE statements has
\* been evaluated since construction or the last restart, so a statement
\* other than HPMODE leaves it as it was.
C8_HpmodeParity == hpmode = (CountKind(Evaluated_statements, "HPMode") % 2 = 1)

C8_Witness ==
    /\ index = 3
    /\ CountKind(Evaluated_statements, "HPMode") = 2
    /\ ast[3].kind = "SetTimeFormat"
    /\ Len(results) = 3
    /\ ~hpmode

\* C9: every step up to the n-th moves the cursor by one and yields the
\* evaluation of the node it passed, in script order; later steps yield
\* nothing.
C9_OneResultPerNode ==
    LET \* the request evaluate gives for the i-th node of the script, hpmode
        \* being what the HPMODE statements before it have left
        ExpectedRequest(i) ==
            evaluate(ast[i], CountKind(SubSeq(ast, 1, i - 1), "HPMode") % 2 = 1,
                     CHOOSE now \in Clock : TRUE, build = "debug").request
    IN  /\ index = Min2(Len(results), Len(ast))
        /\ \A i \in 1..Len(results) :
               IF i <= Len(ast) THEN results[i] = SomeItem(ExpectedRequest(i))
               ELSE results[i] = NoneItem

\* The items a freshly constructed interpreter yields for a script: each
\* node evaluated in order from EvalState::new, up to the first abort.
RECURSIVE FreshRun(_, _, _)
FreshRun(nodes, hp, dbg) ==
    IF nodes = <<>> THEN <<>>
    ELSE LET r == evaluate(Head(nodes), hp, CHOOSE now \in Clock : TRUE, dbg)
         IN  IF r.outcome = "Panic" THEN <<>>
             ELSE <<SomeItem(r.request)>> \o FreshRun(Tail(nodes), r.hpmode, dbg)

Interpreter_new(nodes) == FreshRun(nodes, EvalState_new, build = "debug")

\* C19: a restart, at any point of an iteration, leaves the cursor at 0 and
\* hpmode false, and the requests yielded after it are, one for one, those a
\* freshly constructed interpreter yields for the same script.
C19_RestartEqualsFresh ==
    /\ [][restarts' = restarts + 1 => index' = 0 /\ ~hpmode']_vars
    /\ [](restarts >= 1 =>
              LET fresh == Interpreter_new(ast)
              IN  /\ Len(results) <= Len(fresh) + 1
                  /\ \A i \in 1..Len(results) :
                         results[i] = IF i <= Len(fresh) THEN fresh[i] ELSE NoneItem)

\* A script restarted after its HPMODE and one more statement, then run again
\* past a statement whose bytes depend on hpmode.
C19_Witness ==
    /\ restarts = 1
    /\ Len(ast) = 3
    /\ ast[1].kind = "HPMode"
    /\ ast[2].kind = "SetTimeFormat"
    /\ ast[3].kind = "SetTimeFormat"
    /\ index = 3
    /\ Len(results) = 3
    /\ hpmode
    /\ results[2].request.txn.txbytes =
           <<80, 48, 53, 49, 66, 48, 48, 55, 52, 54, 54, 48, 53, CR>>

----------------------------------------------------------------------------
(* The host loop of gallivant-cli (main.rs): run_script takes one request  *)
(* at a time from the interpreter and handles it; handle_transaction calls *)
(* process until it reports Success.  The devices follow their protocol:   *)
(* the TCU echoes each command and answers a measurement command with one  *)
(* reading; the bytes reach the port one at a time.                        *)

\* Statements of the scripts the host runs: one for each way handle_request
\* deals with a request.
HostStatements ==
    {Cmd("HPMode", <<>>),
     Cmd("Flush", <<>>),
     Cmd("WaitDialog", <<StringE(<<109>>)>>),
     Cmd("TCUTest", TestArgs(1)),
     Cmd("USBOpen", <<>>),
     Cmd("USBPrint", <<StringE(<<67>>), UIntE(48)>>)}

HostScripts == SeqsUpTo(HostStatements, MaxHostLen)

\* format!("{measurement:04X}\r")
tcu_format_measurement(m) ==
    LET h == ToHex(m)
    IN  [i \in 1..(4 - Min2(4, Len(h))) |-> 48] \o h \o <<CR>>

\* Readings a TCU or a printer on a serial line may answer with, as the
\* bytes it sends ("0\r" and "C\r"): one below and one inside the range of
\* the tests the host runs.
DeviceReadings == {<<48, CR>>, <<67, CR>>}

\* The bytes a device on a serial line sends back for a command: the TCU
\* echoes it and adds a reading to a measure command ('M' or 'W'); the
\* printer sends a reading for its measure command only.
DeviceReply(device, command, reading) ==
    IF command = <<>> THEN <<>>
    ELSE IF device = "TCU"
    THEN command \o (IF Head(command) \in {77, 87} THEN reading ELSE <<>>)
    ELSE IF Len(command) >= 4 /\ Head(command) = ESC /\ command[Len(command) - 1] = 77
         THEN reading
         ELSE <<>>

\* tcu_decode_byte of the mock port: from_utf8(bytes).unwrap() and then
\* u8::from_str_radix(.., 16).unwrap(); -1 stands for the panic of either.
tcu_decode_byte(bytes) ==
    LET r == u32_from_str_radix(bytes)
    IN  IF ~Utf8Valid(bytes) \/ ~r.ok THEN 0 - 1
        ELSE IF r.value.hi # 0 \/ r.value.lo > 255 THEN 0 - 1
        ELSE r.value.lo

\* The reading the mock port gives for a measure channel of the TCU; -1
\* where it panics ("Unhandled TCU measure channel").
MockMeasure(channel) ==
    CASE channel \in {0, 1, 4} -> 100
      [] channel \in {2, 19, 20, 21, 22} -> 1
      [] channel \in {3, 9, 10, 11} -> 5000
      [] channel = 5 -> 200
      [] channel = 6 -> 300
      [] channel = 7 -> 400
      [] channel = 8 -> 41
      [] channel \in {16, 17, 18} -> 0
      [] OTHER -> 0 - 1

\* The reading the mock port gives for a measure channel of the printer; -1
\* where it panics ("Unhandled printer measure channel").
MockPrinterMeasure(channel) ==
    CASE channel \in 0..3 -> 5000
      [] channel = 4 -> 25
      [] channel = 5 -> 64
      [] channel = 6 -> 1
      [] channel \in 7..19 -> 0
      [] channel \in 32..63 -> 0
      [] OTHER -> 0 - 1

\* MockTCUPort::write(buf) with w the bytes the mock holds from earlier
\* writes: the bytes up to the first '\r' (at pos, 0 when there is none)
\* are one command, which is echoed and, for 'M' and 'W', followed by the
\* reading of its channel.  What follows the first '\r' stays in the mock
\* until the next write.  The result gives the mock's write buffer after
\* the call, what the call adds to the bytes a read hands over, and whether
\* the call panics.
MockTCUPort_write(w, buf) ==
    LET all == w \o buf
        pos == IF \E i \in 1..Len(all) : all[i] = CR
               THEN CHOOSE i \in 1..Len(all) :
                        all[i] = CR /\ \A j \in 1..(i - 1) : all[j] # CR
               ELSE 0
        command == SubSeq(all, 1, pos)
        rest == SubSeq(all, pos + 1, Len(all))
        n == Len(command)
        reading ==
            IF command[1] = 77 THEN MockMeasure(tcu_decode_byte(SubSeq(command, 2, n - 1)))
            ELSE IF n >= 4
            THEN MockPrinterMeasure(tcu_decode_byte(SubSeq(command, n - 2, n - 1)))
            ELSE 0 - 1
        Written(wr, rd, p) == [write |-> wr, read |-> rd, panic |-> p]
    IN  IF pos = 0 THEN Written(all, <<>>, FALSE)
        ELSE IF command[1] \in {80, 67, 79} THEN Written(rest, command, FALSE)
        ELSE IF command[1] \in {77, 87}
        THEN IF reading < 0 THEN Written(rest, command, TRUE)
             ELSE Written(rest, command \o tcu_format_measurement(reading), FALSE)
        ELSE Written(rest, command, TRUE)

Init ==
    /\ ast \in HostScripts
    /\ index = 0
    /\ hpmode = EvalState_new
    /\ results = <<>>
    /\ pc = "next"
    /\ build = "release"
    /\ request = Req("None")
    /\ txn = NoTxn
    /\ status = "None"
    /\ sends = 0
    /\ reads = 0
    /\ txdata = <<>>
    /\ rxdata = NoPorts
    /\ wire = NoPorts
    /\ tcu \in {"None", "Open", "Mock"}
    /\ printer \in {"None", "Closed"}
    /\ script = <<>>
    /\ errors = <<>>
    /\ restarts = 0
    /\ lastio = "none"
    /\ mock_write = <<>>

TxnVars == <<txn, status, sends, reads, txdata>>

\* run_script: the for loop asks the interpreter for the next request.
HostNext ==
    /\ pc = "next"
    /\ IF index < Len(ast)
       THEN /\ index' = index + 1
            /\ \E now \in Clock :
                   LET r == evaluate(ast[index + 1], hpmode, now, build = "debug")
                   IN  IF r.outcome = "Panic"
                       THEN pc' = "abort" /\ UNCHANGED <<hpmode, results, request>>
                       ELSE /\ hpmode' = r.hpmode
                            /\ results' = Append(results, SomeItem(r.request))
                            /\ request' = r.request
                            /\ pc' = "handle"
       ELSE pc' = "done" /\ UNCHANGED <<index, hpmode, results, request>>
    /\ UNCHANGED <<ast, txn, status, sends, reads, txdata, rxdata, wire, tcu, printer,
                   build,
                   script, errors, restarts, lastio, mock_write>>

\* handle_request: None, Wait, GuiPrint and a Notification dialogue need no port.
HandlePlain ==
    /\ pc = "handle"
    /\ \/ request.kind \in {"None", "Wait", "GuiPrint"}
       \/ request.kind = "GuiDialogue" /\ request.dialog = "Notification"
    /\ pc' = "next"
    /\ UNCHANGED <<ast, index, hpmode, results, request, txn, status, sends, reads,
                   txdata, rxdata, wire, tcu, printer, build,
                   script, errors, restarts, lastio, mock_write>>

\* handle_request: a ManualInput dialogue ends with CONTINUE or with STOP,
\* and STOP panics.
HandleManualInput ==
    /\ pc = "handle"
    /\ request.kind = "GuiDialogue" /\ request.dialog = "ManualInput"
    /\ pc' \in {"next", "abort"}
    /\ UNCHANGED <<ast, index, hpmode, results, request, txn, status, sends, reads,
                   txdata, rxdata, wire, tcu, printer, build,
                   script, errors, restarts, lastio, mock_write>>

\* handle_request: TCUTransact and PrinterTransact enter handle_transaction
\* when their port is open and panic otherwise.
HandleTransact ==
    /\ pc = "handle"
    /\ request.kind \in {"TCUTransact", "PrinterTransact"}
    /\ IF (request.kind = "TCUTransact" /\ tcu \in {"Open", "Mock"})
          \/ (request.kind = "PrinterTransact" /\ printer = "Open")
       THEN /\ pc' = "transact"
            /\ txn' = request.txn
            /\ status' = "New"
            /\ sends' = 0
            /\ reads' = 0
            /\ txdata' = <<>>
       ELSE pc' = "abort" /\ UNCHANGED TxnVars
    /\ UNCHANGED <<ast, index, hpmode, results, request, rxdata, wire, tcu, printer,
                   build,
                   script, errors, restarts, lastio, mock_write>>

\* handle_request: TCUFlush drops what the TCU port has received.
\* read_to_end reads until a read finds nothing, so the bytes that arrive
\* while it reads (the first k on the wire) are dropped as well.  On a
\* serial line flush() can fail ("TCU transmit error"), and a read can fail
\* with an error other than TimedOut after t bytes were taken ("TCU receive
\* error"; how many bytes one read of read_to_end takes depends on the
\* build); the host panics on either.  The mock port does neither.
HandleTCUFlush ==
    /\ pc = "handle"
    /\ request.kind = "TCUFlush"
    /\ IF tcu \in {"Open", "Mock"}
       THEN \E k \in 0..Len(wire["TCU"]) :
                LET arrived == rxdata["TCU"] \o SubSeq(wire["TCU"], 1, k)
                    rest == SubSeq(wire["TCU"], k + 1, Len(wire["TCU"]))
                IN  \/ /\ pc' = "next"
                       /\ rxdata' = [rxdata EXCEPT !["TCU"] = <<>>]
                       /\ wire' = [wire EXCEPT !["TCU"] = rest]
                    \/ /\ tcu = "Open"
                       /\ k = 0
                       /\ pc' = "abort"
                       /\ UNCHANGED <<rxdata, wire>>
                    \/ /\ tcu = "Open"
                       /\ pc' = "abort"
                       /\ \E t \in 0..Len(arrived) :
                              rxdata' = [rxdata EXCEPT
                                            !["TCU"] = SubSeq(arrived, t + 1, Len(arrived))]
                       /\ wire' = [wire EXCEPT !["TCU"] = rest]
       ELSE pc' = "abort" /\ UNCHANGED <<rxdata, wire>>
    /\ UNCHANGED <<ast, index, hpmode, results, request, txn, status, sends, reads,
                   txdata, tcu, printer, build,
                   script, errors, restarts, lastio, mock_write>>

\* handle_request: PrinterOpen and PrinterClose (CommPort::open, ::close).
\* Opening a closed port and closing an open one can fail, and the host
\* panics on the failure.
HandlePrinterPort ==
    /\ pc = "handle"
    /\ request.kind \in {"PrinterOpen", "PrinterClose"}
    /\ LET target == IF request.kind = "PrinterOpen" THEN "Open" ELSE "Closed"
       IN  IF printer = "None" THEN pc' = "abort" /\ UNCHANGED printer
           ELSE IF printer = target THEN pc' = "next" /\ UNCHANGED printer
           ELSE \/ pc' = "next" /\ printer' = target
                \/ pc' = "abort" /\ UNCHANGED printer
    /\ UNCHANGED <<ast, index, hpmode, results, request, txn, status, sends, reads,
                   txdata, rxdata, wire, tcu, build,
                   script, errors, restarts, lastio, mock_write>>

\* handle_transaction, but it stops after one process call whatever the status.
after_process_once(outcome) == IF outcome = "Panic" THEN "abort" ELSE "next"

\* handle_transaction: Success breaks the loop and returns to run_script,
\* Ongoing goes round again, a panic aborts the host.
after_process(outcome) ==
    CASE outcome = "Success" -> "next"
      [] outcome = "Ongoing" -> "transact"
      [] outcome = "Panic" -> "abort"
      [] OTHER -> "error"

\* One round of the loop in handle_transaction: process on the port of the
\* transaction's device.  On a serial line write_all and read can fail, a
\* read waits for bytes and ends with TimedOut when none come, and what the
\* host writes reaches the device, which sends its reply byte by byte: the
\* bytes that arrive while process reads are read in the same call.  The
\* mock port answers inside write: its reply can be read at once, no call
\* of it fails, and a command it does not know makes write, and with it the
\* host, panic after the echo is queued.
HostProcess ==
    /\ pc = "transact"
    /\ status \in {"New", "Ongoing"}
    /\ LET d == txn.device
           \* the transaction runs on the mock port
           OnMock == d = "TCU" /\ tcu = "Mock"
       IN  IF ~txn.txcomplete
           THEN \E io \in IF OnMock THEN {"ok"} ELSE {"ok", "writeerr"} :
                \E m \in IF OnMock THEN {<<>>} ELSE DeviceReadings :
                    LET r == process(txn, rxdata[d], io)
                        w == MockTCUPort_write(mock_write, txn.txbytes)
                    IN  IF OnMock /\ w.panic
                        THEN /\ status' = "Panic"
                             /\ pc' = "abort"
                             /\ rxdata' = [rxdata EXCEPT ![d] = @ \o w.read]
                             /\ mock_write' = w.write
                             /\ lastio' = io
                             /\ UNCHANGED <<txn, sends, txdata, reads, wire>>
                        ELSE /\ txn' = r.txn
                             /\ status' = r.outcome
                             /\ sends' = IF r.wrote THEN sends + 1 ELSE sends
                             /\ txdata' = IF r.wrote THEN txdata \o txn.txbytes
                                          ELSE txdata
                             /\ reads' = r.reads
                             /\ rxdata' = IF OnMock
                                          THEN [rxdata EXCEPT ![d] = r.rx \o w.read]
                                          ELSE [rxdata EXCEPT ![d] = r.rx]
                             /\ wire' = IF r.wrote /\ ~OnMock
                                        THEN [wire EXCEPT
                                                 ![d] = @ \o DeviceReply(d, txn.txbytes, m)]
                                        ELSE wire
                             /\ mock_write' = IF OnMock THEN w.write ELSE mock_write
                             /\ lastio' = io
                             /\ pc' = after_process(r.outcome)
           ELSE \E io \in IF OnMock THEN {"ok"} ELSE {"timedout", "readerr"} :
                \E run \in read_loop(rxdata[d], wire[d], io) :
                    LET r == process(txn, run.taken, io)
                    IN  /\ txn' = r.txn
                        /\ status' = r.outcome
                        /\ reads' = run.reads
                        /\ rxdata' = [rxdata EXCEPT ![d] = run.left]
                        /\ wire' = [wire EXCEPT ![d] = run.wire]
                        /\ lastio' = io
                        /\ pc' = after_process(r.outcome)
                        /\ UNCHANGED <<sends, txdata, mock_write>>
    /\ UNCHANGED <<ast, index, hpmode, results, request, tcu, printer, build,
                   script, errors, restarts>>

\* One byte of a device's reply arrives at its port.
HostDeliver ==
    /\ pc \in {"next", "handle", "transact"}
    /\ \E d \in Devices :
           /\ wire[d] # <<>>
           /\ rxdata' = [rxdata EXCEPT ![d] = Append(@, Head(wire[d]))]
           /\ wire' = [wire EXCEPT ![d] = Tail(@)]
    /\ UNCHANGED <<ast, index, hpmode, results, pc, request, txn, status, sends, reads,
                   txdata, tcu, printer, build,
                   script, errors, restarts, lastio, mock_write>>

Next ==
    \/ HostNext
    \/ HandlePlain
    \/ HandleManualInput
    \/ HandleTransact
    \/ HandleTCUFlush
    \/ HandlePrinterPort
    \/ HostProcess
    \/ HostDeliver

Spec == Init /\ [][Next]_vars

\* C10: the interpreter is advanced only when no transaction is under way,
\* and the transaction under way is the one of the statement the cursor has
\* just passed.
C10_OneStatementAtATime ==
    [][/\ index' # index => status \in {"None", "Success", "IOError", "TestFailure"}
       /\ pc' = "transact" => txn'.expression = ast'[index']]_vars

C10_Witness ==
    /\ index = 2
    /\ ast[1].kind = "TCUTest"
    /\ status = "Success"
    /\ sends = 1
    /\ pc = "handle"

----------------------------------------------------------------------------
(* The parser (syntax/parse.rs) on a script already cut into lines and     *)
(* tokens.  A line is a keyword with its comma separated arguments, a bare *)
(* value (keyword "") or a script comment (keyword ";"); an argument is a  *)
(* string literal, a decimal literal or a '$' hexadecimal literal.         *)

StrTok(s) == [t |-> "str", s |-> s]
DecTok(s) == [t |-> "dec", s |-> s]
HexTok(s) == [t |-> "hex", s |-> s]
Line(kw, args) == [kw |-> kw, args |-> args]

\* Digit sequences of equal length in dictionary order.
RECURSIVE DigitsGreater(_, _)
DigitsGreater(a, b) ==
    IF a = <<>> THEN FALSE
    ELSE IF Head(a) # Head(b) THEN Head(a) > Head(b)
    ELSE DigitsGreater(Tail(a), Tail(b))

\* str::parse::<u32>() and u32::from_str_radix return Err for digits whose
\* value is above u32::MAX; leading zeros do not count.
uint_overflows(digits, radix) ==
    LET sig == StripZeros([i \in 1..Len(digits) |-> HexVal(digits[i])])
        \* u32::MAX in decimal digits: 4294967295
        U32MaxDec == <<4, 2, 9, 4, 9, 6, 7, 2, 9, 5>>
    IN  IF radix = 16 THEN Len(sig) > 8
        ELSE Len(sig) > 10 \/ (Len(sig) = 10 /\ DigitsGreater(sig, U32MaxDec))

\* The value of the digits of a literal that fits a u32.
RECURSIVE uint_literal(_, _)
uint_literal(digits, radix) ==
    IF digits = <<>> THEN 0
    ELSE radix * uint_literal(SubSeq(digits, 1, Len(digits) - 1), radix)
             + HexVal(digits[Len(digits)])

\* What is left of a value whose map closure panicked: unwrap() on the Err
\* of the conversion aborts the program in the middle of the parse.
PanicE == Cmd("Panic", <<>>)

\* expr: choice((string, uint))
parse_expr(tok) ==
    IF tok.t = "str" THEN StringE(tok.s)
    ELSE LET radix == IF tok.t = "dec" THEN 10 ELSE 16
         IN  IF uint_overflows(tok.s, radix) THEN PanicE
             ELSE UIntE(uint_literal(tok.s, radix))

ArgTypeError(expected, found) ==
    [reason |-> "ArgType", expected |-> expected, found |-> found,
     value |-> 0, limits |-> <<0, 0>>]
ArgValueError(value, limits) ==
    [reason |-> "ArgValue", expected |-> "", found |-> "",
     value |-> value, limits |-> limits]
UnrecognisedCommandError ==
    [reason |-> "UnrecognisedCommand", expected |-> "", found |-> "",
     value |-> 0, limits |-> <<0, 0>>]

\* The errors the validators emit for an argument.
string_arg(e) == IF ~IsString(e) THEN <<ArgTypeError("String", e.kind)>> ELSE <<>>
uint_arg(e) == IF ~IsUInt(e) THEN <<ArgTypeError("UInt", e.kind)>> ELSE <<>>
byte_arg(e) ==
    uint_arg(e)
        \o (IF IsUInt(e) /\ e.uint > 255 THEN <<ArgValueError(e.uint, <<0, 255>>)>>
            ELSE <<>>)

Validate(v, e) ==
    CASE v = "string_arg" -> string_arg(e)
      [] v = "uint_arg" -> uint_arg(e)
      [] v = "byte_arg" -> byte_arg(e)
      [] OTHER -> <<>>

Command(kw, kind, params) == [kw |-> kw, kind |-> kind, params |-> params]
FiveExpr == <<"expr", "expr", "expr", "expr", "expr">>

\* The commands of parser(): keyword, node and the parser of each parameter;
\* <<"multi_expr">> stands for any number of unvalidated values.
Commands ==
    {Command("HPMODE", "HPMode", <<>>),
     Command("COMMENT", "Comment", <<"string_arg">>),
     Command("WAIT", "Wait", <<"uint_arg">>),
     Command("OPENDIALOG", "OpenDialog", <<"string_arg">>),
     Command("WAITDIALOG", "WaitDialog", <<"string_arg">>),
     Command("FLUSH", "Flush", <<>>),
     Command("PROTOCOL", "Protocol", <<>>),
     Command("PRINT", "Print", <<"multi_expr">>),
     Command("SETTIMEFORMAT", "SetTimeFormat", <<"byte_arg">>),
     Command("SETTIME", "SetTime", <<>>),
     Command("SETOPTION", "SetOption", <<"byte_arg", "byte_arg">>),
     Command("TCUCLOSE", "TCUClose", <<"byte_arg">>),
     Command("TCUOPEN", "TCUOpen", <<"byte_arg">>),
     Command("TCUTEST", "TCUTest", FiveExpr),
     Command("PRINTERSET", "PrinterSet", <<"byte_arg">>),
     Command("PRINTERTEST", "PrinterTest", FiveExpr),
     Command("USBOPEN", "USBOpen", <<>>),
     Command("USBCLOSE", "USBClose", <<>>),
     Command("USBPRINT", "USBPrint", <<"multi_expr">>),
     Command("USBSETTIMEFORMAT", "USBSetTimeFormat", <<"byte_arg">>),
     Command("USBSETTIME", "USBSetTime", <<>>),
     Command("USBSETOPTION", "USBSetOption", <<"byte_arg", "byte_arg">>),
     Command("USBPRINTERSET", "USBPrinterSet", <<"byte_arg">>),
     Command("USBPRINTERTEST", "USBPrinterTest", FiveExpr)}

LineResult(fatal, node, errs) == [fatal |-> fatal, node |-> node, errors |-> errs]

\* The number of arguments of a line the parser converts before it is done
\* with the line or gives it up.
Reached(line) ==
    IF line.kw = "" THEN Min2(1, Len(line.args))
    ELSE IF line.kw = ";" \/ \A c \in Commands : c.kw # line.kw THEN 0
    ELSE LET c == CHOOSE c \in Commands : c.kw = line.kw
         IN  IF c.params = <<"multi_expr">> THEN Len(line.args)
             ELSE Min2(Len(line.args), Len(c.params))

\* choice((command, expr, script_comment)) on one line.  A line no
\* alternative matches ends the parse, and so does a panic.
parse_line(line) ==
    LET values == [i \in 1..Len(line.args) |-> parse_expr(line.args[i])]
    IN  IF \E i \in 1..Reached(line) : values[i] = PanicE
        THEN LineResult(TRUE, PanicE, <<>>)
        ELSE IF line.kw = ""
        THEN IF Len(values) = 1 THEN LineResult(FALSE, values[1], <<>>)
             ELSE LineResult(TRUE, NoExpr, <<>>)
        ELSE IF line.kw = ";"
        THEN LineResult(FALSE, ScriptCommentE(Concat([i \in 1..Len(line.args) |->
                                                         line.args[i].s])), <<>>)
        ELSE IF \A c \in Commands : c.kw # line.kw THEN LineResult(TRUE, NoExpr, <<>>)
        ELSE LET c == CHOOSE c \in Commands : c.kw = line.kw
             IN  IF c.params = <<"multi_expr">>
                 THEN LineResult(FALSE, Cmd(c.kind, values), <<>>)
                 ELSE IF Len(values) # Len(c.params) THEN LineResult(TRUE, NoExpr, <<>>)
                 ELSE LineResult(FALSE, Cmd(c.kind, values),
                          Concat([i \in 1..Len(values) |-> Validate(c.params[i], values[i])]))

\* parser(): the nodes of the lines and the errors emitted on the way; the
\* first line that does not parse adds UnrecognisedCommand and ends it.
RECURSIVE parser(_)
parser(lines) ==
    IF lines = <<>> THEN [ast |-> <<>>, errors |-> <<>>, panic |-> FALSE]
    ELSE LET r == parse_line(Head(lines))
         IN  IF r.fatal
             THEN IF r.node = PanicE
                  THEN [ast |-> <<>>, errors |-> <<>>, panic |-> TRUE]
                  ELSE [ast |-> <<>>, errors |-> <<UnrecognisedCommandError>>,
                        panic |-> FALSE]
             ELSE LET rest == parser(Tail(lines))
                  IN  [ast |-> <<r.node>> \o rest.ast, errors |-> r.errors \o rest.errors,
                       panic |-> rest.panic]

\* parse_from_str as if it recovered: the tree is given whenever every line
\* was matched, whatever the validators emitted.
parse_from_str_recovers(lines) ==
    LET r == parser(lines)
    IN  IF \A i \in 1..Len(r.errors) : r.errors[i].reason # "UnrecognisedCommand"
        THEN [ok |-> TRUE, ast |-> r.ast, errors |-> <<>>, panic |-> r.panic]
        ELSE [ok |-> FALSE, ast |-> <<>>, errors |-> r.errors, panic |-> r.panic]

\* parse_from_str: Parser::parse gives the tree only when no error was
\* emitted; a panic on the way leaves neither tree nor errors.
parse_from_str(lines) ==
    LET r == parser(lines)
    IN  IF r.errors = <<>> THEN [ok |-> TRUE, ast |-> r.ast, errors |-> <<>>, panic |-> r.panic]
        ELSE [ok |-> FALSE, ast |-> <<>>, errors |-> r.errors, panic |-> r.panic]

----------------------------------------------------------------------------
(* A script is parsed by Interpreter::try_from_str and, when it parses,    *)
(* iterated by a user of the library.                                      *)

TestLine(channel) ==
    Line("TCUTEST", <<channel, DecTok(<<49>>), DecTok(<<49, 50>>), DecTok(<<49>>),
                      StrTok(Message)>>)

\* Lines that parse, lines with each kind of error, lines with a value
\* above 255 or a string where the command table has a byte, and WAIT with
\* 2147483647, with 4294967296 and with $100000000.
ScriptLines ==
    {Line("HPMODE", <<>>),
     Line(";", <<StrTok(<<99>>)>>),
     Line("", <<DecTok(<<53>>)>>),
     Line("TCUCLOSE", <<DecTok(<<48>>)>>),
     Line("TCUCLOSE", <<HexTok(<<70, 70>>)>>),
     Line("TCUCLOSE", <<DecTok(<<50, 53, 54>>)>>),
     Line("TCUCLOSE", <<StrTok(<<97>>)>>),
     Line("WAIT", <<StrTok(<<49>>)>>),
     Line("COMMENT", <<DecTok(<<49>>)>>),
     Line("BOGUS", <<>>),
     Line("SETOPTION", <<DecTok(<<49>>)>>),
     Line("PRINT", <<StrTok(<<116>>), DecTok(<<49, 50, 51>>), HexTok(<<70, 51>>)>>),
     Line("PRINT", <<DecTok(<<51, 48, 48>>)>>),
     TestLine(DecTok(<<48>>)),
     TestLine(DecTok(<<51, 48, 48>>)),
     TestLine(StrTok(<<97>>)),
     Line("WAIT", <<DecTok(<<50, 49, 52, 55, 52, 56, 51, 54, 52, 55>>)>>),
     Line("WAIT", <<DecTok(<<52, 50, 57, 52, 57, 54, 55, 50, 57, 54>>)>>),
     Line("WAIT", <<HexTok(<<49, 48, 48, 48, 48, 48, 48, 48, 48>>)>>)}

ParseScripts == SeqsUpTo(ScriptLines, MaxSrcLen)

InitParse ==
    /\ script \in ParseScripts
    /\ ast = <<>>
    /\ index = 0
    /\ hpmode = EvalState_new
    /\ results = <<>>
    /\ pc = "parse"
    /\ build \in Builds
    /\ request = Req("None")
    /\ txn = NoTxn
    /\ status = "None"
    /\ sends = 0
    /\ reads = 0
    /\ txdata = <<>>
    /\ rxdata = NoPorts
    /\ wire = NoPorts
    /\ tcu = "Open"
    /\ printer = "Closed"
    /\ errors = <<>>
    /\ restarts = 0
    /\ lastio = "none"
    /\ mock_write = <<>>

\* Interpreter::try_from_str: the interpreter over the tree, or the errors.
TryFromStr ==
    /\ pc = "parse"
    /\ LET r == parse_from_str(script)
       IN  IF r.panic
           THEN ast' = ast /\ errors' = errors /\ pc' = "parse_abort"
           ELSE IF r.ok
           THEN ast' = r.ast /\ errors' = <<>> /\ pc' = "iter"
           ELSE ast' = ast /\ errors' = r.errors /\ pc' = "parse_error"
    /\ index' = 0
    /\ hpmode' = EvalState_new
    /\ UNCHANGED <<results, request, txn, status, sends, reads, txdata, rxdata, wire,
                   tcu, printer, build, script, restarts, lastio, mock_write>>

NextParse == TryFromStr \/ InterpNext \/ InterpRestart

SpecParse == InitParse /\ [][NextParse]_vars

\* C12: evaluate returns a request or an error for every node of a parsed
\* script, so iterating a script that parsed never aborts.
C12_EvaluateNeverAborts == pc # "abort"

\* The argument positions the command table types as a byte; every value of
\* PRINT and USBPRINT that is a uint is one byte.
BytePositions(kind, n) ==
    IF kind \in {"Print", "USBPrint"} THEN 1..n
    ELSE IF kind \in {"SetOption", "USBSetOption"} THEN {1, 2}
    ELSE IF kind \in {"SetTimeFormat", "TCUClose", "TCUOpen", "TCUTest", "PrinterSet",
                      "PrinterTest", "USBSetTimeFormat", "USBPrinterSet",
                      "USBPrinterTest"}
    THEN {1}
    ELSE {}

\* The argument positions that take a uint and nothing else.
UIntPositions(kind) ==
    IF kind = "Wait" THEN {1}
    ELSE IF kind \in {"TCUTest", "PrinterTest", "USBPrinterTest"} THEN {1, 2, 3, 4}
    ELSE IF kind \in {"Print", "USBPrint"} THEN {}
    ELSE BytePositions(kind, 2)

\* Every line of the script is matched by some alternative of the parser.
AllLinesMatch == \A i \in 1..Len(script) : ~parse_line(script[i]).fatal

\* The node a matched line stands for.
LineNode(i) == parse_line(script[i]).node

Parsed == pc \in {"iter", "abort", "parse_error"}

\* C13: a returned tree has no uint above 255 in a byte position, and a
\* script with such a value gets an ArgValue error with limits (0,255) and
\* no tree.
C13_ByteFit ==
    Parsed =>
        /\ \A i \in 1..Len(ast) :
               \A j \in BytePositions(ast[i].kind, Len(ast[i].args)) :
                   IsUInt(ast[i].args[j]) => ast[i].args[j].uint <= 255
        /\ (/\ AllLinesMatch
            /\ \E i \in 1..Len(script) :
                   \E j \in BytePositions(LineNode(i).kind, Len(LineNode(i).args)) :
                       IsUInt(LineNode(i).args[j]) /\ LineNode(i).args[j].uint > 255)
           => /\ pc = "parse_error"
              /\ ast = <<>>
              /\ \E k \in 1..Len(errors) :
                     errors[k].reason = "ArgValue" /\ errors[k].limits = <<0, 255>>

\* C14: a string in a position that takes a uint gets an ArgType error and
\* no tree, so no returned tree has a string in such a position.
C14_UIntTyped ==
    Parsed =>
        /\ \A i \in 1..Len(ast) :
               \A j \in UIntPositions(ast[i].kind) : IsUInt(ast[i].args[j])
        /\ (/\ AllLinesMatch
            /\ \E i \in 1..Len(script) :
                   \E j \in UIntPositions(LineNode(i).kind) : IsString(LineNode(i).args[j]))
           => /\ pc = "parse_error"
              /\ ast = <<>>
              /\ \E k \in 1..Len(errors) : errors[k].reason = "ArgType"

----------------------------------------------------------------------------
(* main of gallivant-cli: the script is parsed, and run_script is entered  *)
(* only with an Interpreter.  Both ports are given on the command line.    *)

\* One line for each way handle_request deals with a request, and one line
\* for each kind of parse error.
MainLines ==
    {Line("HPMODE", <<>>),
     Line("FLUSH", <<>>),
     Line("WAITDIALOG", <<StrTok(<<109>>)>>),
     Line("TCUCLOSE", <<DecTok(<<48>>)>>),
     Line("USBOPEN", <<>>),
     Line("USBPRINT", <<StrTok(<<67>>), DecTok(<<52, 56>>)>>),
     Line("TCUCLOSE", <<DecTok(<<50, 53, 54>>)>>),
     Line("WAIT", <<StrTok(<<49>>)>>),
     Line("BOGUS", <<>>)}

MainScripts == SeqsUpTo(MainLines, MaxSrcLen)

InitMain ==
    /\ script \in MainScripts
    /\ ast = <<>>
    /\ index = 0
    /\ hpmode = EvalState_new
    /\ results = <<>>
    /\ pc = "parse"
    /\ build = "release"
    /\ request = Req("None")
    /\ txn = NoTxn
    /\ status = "None"
    /\ sends = 0
    /\ reads = 0
    /\ txdata = <<>>
    /\ rxdata = NoPorts
    /\ wire = NoPorts
    /\ tcu = "Open"
    /\ printer = "Closed"
    /\ errors = <<>>
    /\ restarts = 0
    /\ lastio = "none"
    /\ mock_write = <<>>

\* main: try_from_str(&script).map_err(Error::from).and_then(run_script);
\* with parse errors the reports are printed and main returns.
MainTryFromStr ==
    /\ pc = "parse"
    /\ LET r == parse_from_str(script)
       IN  IF r.panic
           THEN ast' = ast /\ errors' = errors /\ pc' = "parse_abort"
           ELSE IF r.ok
           THEN ast' = r.ast /\ errors' = <<>> /\ pc' = "next"
           ELSE ast' = ast /\ errors' = r.errors /\ pc' = "parse_error"
    /\ index' = 0
    /\ hpmode' = EvalState_new
    /\ UNCHANGED <<results, request, txn, status, sends, reads, txdata, rxdata, wire,
                   tcu, printer, build, script, restarts, lastio, mock_write>>

NextMain ==
    \/ MainTryFromStr
    \/ HostNext
    \/ HandlePlain
    \/ HandleManualInput
    \/ HandleTransact
    \/ HandleTCUFlush
    \/ HandlePrinterPort
    \/ HostProcess
    \/ HostDeliver

SpecMain == InitMain /\ [][NextMain]_vars

\* C15: when the parser emits an error for a script, try_from_str returns
\* the errors and no interpreter: the host yields no request, starts no
\* transaction and writes nothing.
C15_ParseErrorsStopTheRun ==
    (pc # "parse" /\ parser(script).errors # <<>>) =>
        /\ pc = "parse_error"
        /\ errors # <<>>
        /\ ast = <<>> /\ index = 0
        /\ results = <<>> /\ request = Req("None")
        /\ status = "None" /\ txn = NoTxn
        /\ sends = 0 /\ txdata = <<>> /\ wire = NoPorts

\* A script whose first line would have been sent to the TCU and whose
\* second line has a value error.
C15_Witness ==
    /\ pc = "parse_error"
    /\ Len(script) = 2
    /\ script[1] = Line("TCUCLOSE", <<DecTok(<<48>>)>>)
    /\ Len(errors) = 1
    /\ errors[1].reason = "ArgValue"

----------------------------------------------------------------------------
(* The evaluator on one statement at a time: the script evaluates the      *)
(* statement, switches HPMODE on and evaluates the statement again.        *)

\* Values of a byte argument: the smallest, ESC itself and the largest.
ByteValues == {0, ESC, 255}

TestArgsOn(channel) ==
    <<UIntE(channel), UIntE(1), UIntE(12), UIntE(1), StringE(Message)>>

\* A string of n letters.
Letters(n) == StringE([i \in 1..n |-> 65])

\* PRINT "t", 123, $F3
PrintExample == Cmd("Print", <<StringE(<<116>>), UIntE(123), UIntE(243)>>)

PrintStatements ==
    {PrintExample,
     Cmd("Print", <<>>),
     Cmd("Print", <<UIntE(300)>>),
     Cmd("Print", <<Letters(1), UIntE(0), Letters(2)>>)}
        \cup {Cmd("Print", <<Letters(n)>>) : n \in {0, 127, 128, 255, 256}}

EscStatements ==
    {Cmd("SetTime", <<>>), Cmd("USBSetTime", <<>>)}
        \cup {Cmd(k, <<UIntE(v)>>) :
                  k \in {"SetTimeFormat", "PrinterSet", "USBSetTimeFormat", "USBPrinterSet"},
                  v \in ByteValues}
        \cup {Cmd(k, <<UIntE(v), UIntE(w)>>) :
                  k \in {"SetOption", "USBSetOption"}, v \in ByteValues, w \in ByteValues}
        \cup {Cmd(k, TestArgsOn(v)) : k \in {"PrinterTest", "USBPrinterTest"},
                                      v \in ByteValues}

PlainStatements ==
    {Cmd(k, <<UIntE(v)>>) : k \in {"TCUClose", "TCUOpen"}, v \in ByteValues}
        \cup {Cmd("TCUTest", TestArgsOn(v)) : v \in ByteValues}
        \cup {Cmd("USBPrint", <<StringE(<<67>>), UIntE(v)>>) : v \in ByteValues}

EvalStatements == PrintStatements \cup EscStatements \cup PlainStatements

InitEval ==
    /\ ast \in {<<e, Cmd("HPMode", <<>>), e>> : e \in EvalStatements}
    /\ index = 0
    /\ hpmode = EvalState_new
    /\ results = <<>>
    /\ pc = "iter"
    /\ build \in Builds
    /\ request = Req("None")
    /\ txn = NoTxn
    /\ status = "None"
    /\ sends = 0
    /\ reads = 0
    /\ txdata = <<>>
    /\ rxdata = NoPorts
    /\ wire = NoPorts
    /\ tcu = "Open"
    /\ printer = "Closed"
    /\ script = <<>>
    /\ errors = <<>>
    /\ restarts = 0
    /\ lastio = "none"
    /\ mock_write = <<>>

SpecEval == InitEval /\ [][NextInterp]_vars

\* The number of argument bytes of a PRINT: a string counts its bytes, a
\* uint counts one.
RECURSIVE PrintLen(_)
PrintLen(args) ==
    IF args = <<>> THEN 0
    ELSE (IF IsString(Head(args)) THEN Len(Head(args).str) ELSE 1) + PrintLen(Tail(args))

FirstEvaluated == index >= 1 /\ pc \in {"iter", "abort"}

\* C16: PRINT with at most 255 argument bytes yields a TCUTransact, PRINT
\* with more yields an error item; evaluate aborts for neither.
C16_PrintLength ==
    (FirstEvaluated /\ ast[1].kind = "Print") =>
        /\ pc # "abort"
        /\ Len(results) >= 1
        /\ IF PrintLen(ast[1].args) <= 255
           THEN results[1].request.kind = "TCUTransact"
           ELSE results[1].request.kind = "Error"

\* The sixteen uppercase hexadecimal digits in ASCII.
UpperHex == <<48, 49, 50, 51, 52, 53, 54, 55, 56, 57, 65, 66, 67, 68, 69, 70>>
HexPair(b) == <<UpperHex[(b \div 16) + 1], UpperHex[(b % 16) + 1]>>

\* The argument bytes of a PRINT whose uints are bytes.
RECURSIVE PrintBytes(_)
PrintBytes(args) ==
    IF args = <<>> THEN <<>>
    ELSE (IF IsString(Head(args)) THEN Head(args).str ELSE <<Head(args).uint>>)
             \o PrintBytes(Tail(args))

AllBytes(args) == \A i \in 1..Len(args) : IsUInt(args[i]) => args[i].uint <= 255

\* C17: the bytes sent for a PRINT with n argument bytes are 'P', the two
\* hexadecimal digits of 2n, two hexadecimal digits for each argument byte
\* in order and '\r'.
C17_PrintEncoding ==
    (FirstEvaluated /\ ast[1].kind = "Print" /\ AllBytes(ast[1].args) /\ Len(results) >= 1)
        => LET bs == PrintBytes(ast[1].args)
           IN  /\ results[1].request.kind = "TCUTransact"
               /\ results[1].request.txn.txbytes =
                      <<80>> \o HexPair(2 * Len(bs))
                          \o Concat([i \in 1..Len(bs) |-> HexPair(bs[i])]) \o <<CR>>

\* PRINT "t", 123, $F3 has been evaluated to "P06747BF3\r".
C17_Witness ==
    /\ index = 1
    /\ ast[1] = PrintExample
    /\ Len(results) = 1
    /\ results[1].request.txn.txbytes = <<80, 48, 54, 55, 52, 55, 66, 70, 51, CR>>

\* bytes with ins put in right after the first occurrence of pat.
InsertAfterFirst(bytes, pat, ins) ==
    LET n == Len(pat)
        at == {i \in 1..(Len(bytes) - n + 1) : SubSeq(bytes, i, i + n - 1) = pat}
    IN  IF at = {} THEN bytes
        ELSE LET i == CHOOSE i \in at : \A k \in at : i <= k
             IN  SubSeq(bytes, 1, i + n - 1) \o ins \o SubSeq(bytes, i + n, Len(bytes))

EscKinds ==
    {"SetTimeFormat", "SetTime", "SetOption", "PrinterSet", "PrinterTest",
     "USBSetTimeFormat", "USBSetTime", "USBSetOption", "USBPrinterSet", "USBPrinterTest"}

\* The statement has been evaluated with HPMODE off, then with HPMODE on.
BothEvaluated == index = 3 /\ Len(results) = 3 /\ ast[2].kind = "HPMode" /\ ast[3] = ast[1]

\* C18: for a command with ESC the bytes under HPMODE are the bytes without
\* it with one NUL put in right after ESC ("00" after "1B" on the TCU wire,
\* 0x00 after 0x1B on the printer wire); the bytes of the other commands
\* are the same under HPMODE.
C18_HpmodeInsertsOneNul ==
    (BothEvaluated /\ results[1].request.kind \in {"TCUTransact", "PrinterTransact"}) =>
        LET off == results[1].request.txn.txbytes
            on == results[3].request.txn.txbytes
        IN  IF ast[1].kind \in EscKinds
            THEN on = IF results[1].request.kind = "TCUTransact"
                      THEN InsertAfterFirst(off, <<49, 66>>, <<48, 48>>)
                      ELSE InsertAfterFirst(off, <<ESC>>, <<0>>)
            ELSE on = off

\* USBSETOPTION 27, 255 under HPMODE is 1B 00 00 'O' 1B FF.
C18_Witness ==
    /\ BothEvaluated
    /\ ast[1] = Cmd("USBSetOption", <<UIntE(ESC), UIntE(255)>>)
    /\ results[3].request.txn.txbytes = <<ESC, 0, 0, 79, ESC, 255>>
    /\ results[1].request.txn.txbytes = <<ESC, 0, 79, ESC, 255>>

----------------------------------------------------------------------------
(* More properties of the host loop, checked under Spec, and the host loop *)
(* with every process call and every arriving byte eventually happening.   *)

\* Everything the device has sent or is about to send to the port of the
\* transaction under way.
Stream == txn.response \o rxdata[txn.device] \o wire[txn.device]

\* The value of the i-th part of the stream lies in the transaction's range.
ReadingInRange(i) ==
    LET m == Measurement_try_from(Parts(Stream)[i])
    IN  m.ok /\ txn.test.min <= U32Value(m.value) /\ U32Value(m.value) <= txn.test.max

\* C23: a TCU test with a retry whose first measurement is out of range and
\* whose measurement after the resend is in range does not fail: the
\* measurement tested after the resend is the new one.
C23_RetestUsesNewMeasurement ==
    (/\ pc \in {"transact", "next", "abort", "error"}
     /\ txn.device = "TCU"
     /\ txn.test.present
     /\ InitialRetries(txn) >= 1
     /\ sends = 2
     /\ Len(Parts(Stream)) = 4
     /\ ~ReadingInRange(2)
     /\ ReadingInRange(4)) => status \in {"Ongoing", "Success"}

\* C27: a TCU transaction reports Success only with every byte of its reply
\* consumed, so the next TCU transaction starts on an empty port and the
\* first part it receives is its own echo.
C27_NoLeftOver ==
    /\ (status = "Success" /\ txn.device = "TCU")
           => (rxdata["TCU"] = <<>> /\ wire["TCU"] = <<>>)
    /\ (pc = "transact" /\ status = "New" /\ txn.device = "TCU")
           => (rxdata["TCU"] = <<>> /\ wire["TCU"] = <<>>)
    /\ (pc = "transact" /\ txn.device = "TCU")
           => IsPrefix(FirstPart(txn.response), txn.txbytes)

\* A process call would change something: on a serial line it can always
\* fail, and on the mock port the tx bytes are unsent, the port holds bytes,
\* or the receive buffer as it is gives a result.  This is
\* ENABLED <<HostProcess>>_vars, written as a state predicate.
CanProcess ==
    /\ pc = "transact"
    /\ status \in {"New", "Ongoing"}
    /\ \/ ~(txn.device = "TCU" /\ tcu = "Mock")
       \/ ~txn.txcomplete
       \/ rxdata[txn.device] # <<>>
       \/ reads # ReadCalls(0)
       \/ process(txn, <<>>, "ok").outcome # status
       \/ process(txn, <<>>, "ok").txn # txn

\* The loop of handle_transaction keeps calling process (weak fairness of
\* HostProcess), and the bytes a device has queued arrive.
SpecLive ==
    /\ Spec
    /\ ([]<>~CanProcess \/ []<><<HostProcess>>_vars)
    /\ WF_vars(HostDeliver)

\* C28: on a port that does not fail, handle_transaction ends with Success
\* or with an error value after finitely many process calls.
C28_TransactionEnds ==
    (pc = "transact")
        ~> (pc \in {"next", "error"} \/ lastio \in {"readerr", "writeerr"})

----------------------------------------------------------------------------
(* One transaction on a port that can fail (transaction.rs, process): the  *)
(* device answers every write of the tx bytes with its reply, the reply    *)
(* reaches the port one byte at a time, and each call of write_all or read *)
(* may end with an I/O error.                                              *)

MaxPortRetries == 1

\* USBPRINTERTEST 3, 1000, 12000, 1, "FAIL"
PrinterExample ==
    Cmd("USBPrinterTest",
        <<UIntE(3), UIntE(1000), UIntE(12000), UIntE(1), StringE(<<70, 65, 73, 76>>)>>)

\* The statements driven on the failing port, each with the hpmode it is
\* evaluated under.
PortCases ==
    {[statement |-> Cmd("TCUClose", <<UIntE(0)>>), hpmode |-> FALSE],
     [statement |-> PrinterExample, hpmode |-> TRUE]}
        \cup {[statement |-> Cmd("TCUTest", TestArgs(r)), hpmode |-> FALSE] :
                  r \in 0..MaxPortRetries}
        \cup {[statement |-> Cmd("USBPrinterTest", TestArgs(r)), hpmode |-> FALSE] :
                  r \in 0..MaxPortRetries}

\* What a device sends as its measurement: "0\r", "1\r", "C\r", "D\r" around
\* the range 1..=12, "AA1\r" inside 1000..=12000, "C\r" with more bytes
\* behind it.
PortReadings ==
    {<<48, CR>>, <<49, CR>>, <<67, CR>>, <<68, CR>>, <<65, 65, 49, CR>>,
     <<67, CR, 68, CR>>}

\* The bytes the device sends back for one write of t's tx bytes.
PortReplies(t) ==
    IF t.test.present
    THEN {(IF t.device = "TCU" THEN t.txbytes ELSE <<>>) \o m : m \in PortReadings}
    ELSE {IF t.device = "TCU" THEN t.txbytes ELSE <<>>}

InitPort ==
    /\ ast = <<>>
    /\ index = 0
    /\ hpmode = EvalState_new
    /\ results = <<>>
    /\ pc = "txn"
    /\ build = "release"
    /\ request = Req("None")
    /\ \E c \in PortCases : \E now \in Clock :
           txn = evaluate(c.statement, c.hpmode, now, build = "debug").request.txn
    /\ status = "New"
    /\ sends = 0
    /\ reads = 0
    /\ txdata = <<>>
    /\ rxdata = NoPorts
    /\ wire = NoPorts
    /\ tcu = "Open"
    /\ printer = "Open"
    /\ script = <<>>
    /\ errors = <<>>
    /\ restarts = 0
    /\ lastio = "none"
    /\ mock_write = <<>>

\* One process call: write_all can fail while the tx bytes are unsent;
\* afterwards a read waits for bytes, so that the bytes arriving while the
\* call reads are read in it, and ends with 0 bytes, with TimedOut or with
\* another error.
PortProcess ==
    /\ pc = "txn"
    /\ status \in {"New", "Ongoing"}
    /\ LET d == txn.device
       IN  IF ~txn.txcomplete
           THEN \E io \in {"ok", "writeerr"} :
                \E reply \in PortReplies(txn) :
                    LET r == process(txn, rxdata[d], io)
                    IN  /\ txn' = r.txn
                        /\ status' = r.outcome
                        /\ sends' = IF r.wrote THEN sends + 1 ELSE sends
                        /\ txdata' = IF r.wrote THEN txdata \o txn.txbytes ELSE txdata
                        /\ reads' = r.reads
                        /\ rxdata' = [rxdata EXCEPT ![d] = r.rx]
                        /\ wire' = IF r.wrote THEN [wire EXCEPT ![d] = @ \o reply]
                                   ELSE wire
                        /\ lastio' = io
           ELSE \E io \in {"ok", "timedout", "readerr"} :
                \E run \in read_loop(rxdata[d], wire[d], io) :
                    LET r == process(txn, run.taken, io)
                    IN  /\ txn' = r.txn
                        /\ status' = r.outcome
                        /\ reads' = run.reads
                        /\ rxdata' = [rxdata EXCEPT ![d] = run.left]
                        /\ wire' = [wire EXCEPT ![d] = run.wire]
                        /\ lastio' = io
                        /\ UNCHANGED <<sends, txdata>>
    /\ UNCHANGED <<ast, index, hpmode, results, pc, request, tcu, printer, build,
                   script, errors, restarts, mock_write>>

\* One byte of the device's reply arrives at the port.
PortDeliver ==
    /\ pc = "txn"
    /\ status \in {"New", "Ongoing"}
    /\ wire[txn.device] # <<>>
    /\ rxdata' = [rxdata EXCEPT ![txn.device] = Append(@, Head(wire[txn.device]))]
    /\ wire' = [wire EXCEPT ![txn.device] = Tail(@)]
    /\ UNCHANGED <<ast, index, hpmode, results, pc, request, txn, status, sends, reads,
                   txdata, tcu, printer, build,
                   script, errors, restarts, lastio, mock_write>>

NextPort == PortProcess \/ PortDeliver

SpecPort == InitPort /\ [][NextPort]_vars

\* C21: an I/O error other than TimedOut, on the write of the tx bytes or on
\* a read, comes back from process as a transaction error value.
C21_IOErrorIsReturned ==
    lastio \in {"readerr", "writeerr"} => status \in TransactionErrors

\* The part of a receive buffer evaluate_response parses as the measurement.
MeasurementPart(t, bytes) == Parts(bytes)[expected_endings(t)]

\* With this receive buffer evaluate_response gets as far as the test: the
\* parts are there, the echo is right and the measurement parses.
Judged(t, bytes) ==
    /\ t.test.present
    /\ Len(Parts(bytes)) >= expected_endings(t)
    /\ (t.device = "TCU" => Parts(bytes)[1] = t.txbytes)
    /\ Measurement_try_from(MeasurementPart(t, bytes)).ok

Measured(t, bytes) == U32Value(Measurement_try_from(MeasurementPart(t, bytes)).value)

\* The port worked during the last process call.
PortWorked(io) == io \in {"ok", "timedout"}

\* In C22, C24 and C29 a step that is not the arrival of a byte is a
\* process call, and txn'.response is the receive buffer as that call sees
\* it: what it had and what the reads of the call hand over.

\* C22: a process call that parses a measurement outside the range while
\* retries > 0 returns Ongoing with retries one lower and tx_complete false,
\* tx bytes, device and expression as they were; the process call after it
\* writes the same tx bytes once more.
C22_RetryResends ==
    [][~PortDeliver =>
          /\ (/\ txn.txcomplete
               /\ PortWorked(lastio')
               /\ Judged(txn, txn'.response)
               /\ ~(txn.test.min <= Measured(txn, txn'.response)
                        /\ Measured(txn, txn'.response) <= txn.test.max)
               /\ txn.test.retries > 0)
                  => /\ status' = "Ongoing"
                     /\ txn'.test.retries = txn.test.retries - 1
                     /\ ~txn'.txcomplete
                     /\ txn'.txbytes = txn.txbytes
                     /\ txn'.device = txn.device
                     /\ txn'.expression = txn.expression
          /\ (status = "Ongoing" /\ ~txn.txcomplete /\ PortWorked(lastio'))
                  => /\ txdata' = txdata \o txn.txbytes
                     /\ sends' = sends + 1
                     /\ txn'.txbytes = txn.txbytes]_vars

\* A test with one retry whose first measurement failed and whose tx bytes
\* went out a second time.
C22_Witness ==
    /\ txn.test.present
    /\ InitialRetries(txn) = 1
    /\ txn.test.retries = 0
    /\ txn.txcomplete
    /\ status = "Ongoing"
    /\ sends = 2
    /\ txdata = txn.txbytes \o txn.txbytes

\* C24: a parsed measurement m passes exactly when min <= m <= max, and a
\* pass makes process return Success with retries as they were and nothing
\* written, whatever follows the measurement in the receive buffer.
C24_InclusiveRange ==
    [][(/\ ~PortDeliver
        /\ txn.txcomplete
        /\ PortWorked(lastio')
        /\ Judged(txn, txn'.response))
          => /\ (status' = "Success")
                    <=> (txn.test.min <= Measured(txn, txn'.response)
                            /\ Measured(txn, txn'.response) <= txn.test.max)
             /\ status' = "Success"
                    => /\ txn'.test = txn.test
                       /\ sends' = sends
                       /\ txdata' = txdata]_vars

\* The reading 12 against the range 1..=12 with "D\r" behind it.
C24_Witness ==
    /\ txn.device = "Printer"
    /\ txn.test.present
    /\ txn.test.max = 12
    /\ txn.response = <<67, CR, 68, CR>>
    /\ status = "Success"
    /\ sends = 1
    /\ txn.test.retries = InitialRetries(txn)

\* C25: a Printer transaction with a test takes the first part of the
\* receive buffer as its measurement and compares it with nothing: when it
\* parses and lies in the range the result is Success.
C25_PrinterHasNoEcho ==
    (/\ txn.device = "Printer"
     /\ txn.test.present
     /\ txn.txcomplete
     /\ Evaluated
     /\ PortWorked(lastio)
     /\ Judged(txn, txn.response)
     /\ txn.test.min <= Measured(txn, txn.response)
     /\ Measured(txn, txn.response) <= txn.test.max) => status = "Success"

\* USBPRINTERTEST 3, 1000, 12000, 1, "FAIL" after HPMODE, answered "AA1\r".
C25_Witness ==
    /\ txn.expression = PrinterExample
    /\ txdata = <<ESC, 0, 0, 77, 3>>
    /\ txn.response = <<65, 65, 49, CR>>
    /\ txn.response # txn.txbytes
    /\ status = "Success"

\* C26: a process call whose read ends with TimedOut raises no error and
\* returns Ongoing while the receive buffer holds fewer '\r' than expected.
C26_TimedOutEndsTheRound ==
    (lastio = "timedout" /\ CountCR(txn.response) < expected_endings(txn))
        => status = "Ongoing"

\* C29: a process call after the send, with no byte from the port and fewer
\* '\r' in the receive buffer than expected, returns Ongoing, leaves the
\* transaction as it was and writes nothing.
C29_IdleCallChangesNothing ==
    [][(/\ ~PortDeliver
        /\ txn.txcomplete
        /\ PortWorked(lastio')
        /\ txn'.response = txn.response
        /\ CountCR(txn.response) < expected_endings(txn))
          => /\ status' = "Ongoing"
             /\ txn' = txn
             /\ txdata' = txdata
             /\ sends' = sends]_vars

----------------------------------------------------------------------------
(* Integer literals beyond u32, checked under SpecParse.                   *)

\* C30: a script with an integer literal above 2^32 - 1 makes the parser
\* return a non-empty list of errors and no tree; it does not abort.
C30_BigLiteralIsError ==
    LET \* the script holds a decimal or '$' literal above 2^32 - 1
        HasBigLiteral ==
            \E i \in 1..Len(script) : \E j \in 1..Len(script[i].args) :
                LET tok == script[i].args[j]
                IN  \/ tok.t = "dec" /\ uint_overflows(tok.s, 10)
                    \/ tok.t = "hex" /\ uint_overflows(tok.s, 16)
    IN  (pc # "parse" /\ HasBigLiteral)
            => (pc = "parse_error" /\ errors # <<>> /\ ast = <<>>)

====
